---- MODULE Spec2Model ----
(***************************************************************************)
(* Model of src-tauri/src/main.rs: the native host shell of SageFlow.      *)
(*                                                                         *)
(* The shell registers a setup closure (get the window labelled "main",    *)
(* show it, return Ok) and two commands callable from the front-end        *)
(* (get_app_version, show_about_dialog), then runs the application.        *)
(*                                                                         *)
(* The windowing runtime is observed through the requests the shell makes  *)
(* on it (trace) and the values the commands return to the bridge          *)
(* (replies).  Strings are TLA+ strings, so the about message is built and *)
(* taken apart character by character.                                     *)
(***************************************************************************)
EXTENDS Integers, Sequences, FiniteSets, TLC

\* ------------------------------------------------------------------ bounds

\* Number of command invocations the front-end makes in one run.
MaxCalls == 3

\* Window labels the static configuration may register.
Windows == {"main", "settings", "report"}

\* Values CARGO_PKG_VERSION may have been given at build time.
Versions == {"1.2.3", "0.1.0", "10.4.12"}

\* ----------------------------------------------------------------- values

\* Option::None / no window.
None == "<none>"

\* The unit value () a command without a return type hands to the bridge.
Unit == "()"

VARIABLES
    registry,   \* labels of the windows the runtime has registered
    version,    \* the value of env!("CARGO_PKG_VERSION") in this build
    pc,         \* position of the process in main / the setup closure
    window,     \* the setup closure's local `window`
    visible,    \* windows whose visibility flag is set
    trace,      \* requests made on the runtime, in order
    replies     \* values returned to the bridge by the commands, in order

vars == <<registry, version, pc, window, visible, trace, replies>>

\* A request on the runtime.
Req(kind, target, ok, title, message) ==
    [req |-> kind, target |-> target, ok |-> ok, title |-> title, message |-> message]

\* ----------------------------------------------------------- pure helpers

\* Position of the first occurrence of pat in s, 0 when there is none.
IndexOf(s, pat) ==
    LET n == Len(pat)
        hits == {i \in 1..(Len(s) - n + 1) : SubSeq(s, i, i + n - 1) = pat}
    IN  IF hits = {} THEN 0 ELSE CHOOSE i \in hits : \A j \in hits : i <= j

\* format!(fmt, arg) with one "{}" placeholder: the text before the
\* placeholder, the argument's Display output, the text after it.
format(fmt, arg) ==
    LET i == IndexOf(fmt, "{}")
    IN  IF i = 0 THEN fmt
        ELSE SubSeq(fmt, 1, i - 1) \o arg \o SubSeq(fmt, i + 2, Len(fmt))

\* The format string of show_about_dialog.
AboutFormat ==
    "SageFlow Accounting\n\nVersion: {}\n\nModern accounting software for Ethiopian businesses.\n\n© 2026 SageFlow"

\* A title without the product name.
AboutTitle_bare == "About"

\* The dialog title of show_about_dialog.
AboutTitle == "About SageFlow"

\* The message with a single newline between the name and the version line.
AboutMessage_tight(v) ==
    "SageFlow Accounting\nVersion: " \o v
        \o "\n\nModern accounting software for Ethiopian businesses.\n\n© 2026 SageFlow"

\* let message = format!(..., version)
AboutMessage(v) == format(AboutFormat, v)

\* A reporter that answers with the package name instead of its version.
get_app_version_name(v) == "sageflow"

\* get_app_version: env!("CARGO_PKG_VERSION").to_string()
get_app_version(v) == v

\* A dialog always anchored to the main window.
DialogParent_main(w) == "main"

\* Some(&window): the dialog's parent is the window the bridge passed in.
DialogParent(w) == w

\* A presenter that asks for the dialog twice.
show_about_dialog_twice(w, v) ==
    << Req("dialog", DialogParent(w), TRUE, AboutTitle, AboutMessage(v)),
       Req("dialog", DialogParent(w), TRUE, AboutTitle, AboutMessage(v)) >>

\* A presenter that also raises the invoking window.
show_about_dialog_raise(w, v) ==
    << Req("show", w, TRUE, "", ""),
       Req("dialog", DialogParent(w), TRUE, AboutTitle, AboutMessage(v)) >>

\* The requests show_about_dialog(window) makes on the runtime.
show_about_dialog(w, v) ==
    << Req("dialog", DialogParent(w), TRUE, AboutTitle, AboutMessage(v)) >>

\* A lookup that falls back on any registered window.
get_window_fallback(reg, label) ==
    IF label \in reg THEN label
    ELSE IF reg # {} THEN CHOOSE w \in reg : TRUE
    ELSE None

\* app.get_window(label): Some(window) when the label is registered.
get_window(reg, label) == IF label \in reg THEN label ELSE None

\* An Option whose absence is not noticed.
OptionUnwrapPanics_never(opt) == FALSE

\* Option::unwrap panics on None.
OptionUnwrapPanics(opt) == opt = None

\* A Result whose error is dropped.
ResultUnwrapPanics_never(ok) == FALSE

\* Result::unwrap panics on Err.
ResultUnwrapPanics(ok) == ~ok

\* An event loop that serves commands while setup is still running.
EventLoopRunning_early == pc \in {"get_window", "show", "ok", "Ready"}

\* .run(...) enters the event loop, which dispatches commands, only once the
\* setup closure has returned Ok.
EventLoopRunning == pc = "Ready"

\* --------------------------------------------------------------- machine

Init ==
    /\ registry \in SUBSET Windows
    /\ version \in Versions
    /\ pc = "get_window"
    /\ window = None
    /\ visible = {}
    /\ trace = <<>>
    /\ replies = <<>>

\* let window = app.get_window("main").unwrap();
SetupGetWindow ==
    /\ pc = "get_window"
    /\ LET r == get_window(registry, "main")
       IN  /\ trace' = Append(trace, Req("get_window", "main", r # None, "", ""))
           /\ IF OptionUnwrapPanics(r)
              THEN pc' = "Aborted" /\ window' = window
              ELSE pc' = "show" /\ window' = r
    /\ UNCHANGED <<registry, version, visible, replies>>

\* window.show().unwrap();
SetupShow ==
    /\ pc = "show"
    /\ \E ok \in (IF window \in registry THEN BOOLEAN ELSE {FALSE}) :
          /\ trace' = Append(trace, Req("show", window, ok, "", ""))
          /\ visible' = IF ok THEN visible \cup {window} ELSE visible
          /\ pc' = IF ResultUnwrapPanics(ok) THEN "Aborted" ELSE "ok"
    /\ UNCHANGED <<registry, version, window, replies>>

\* Ok(())
SetupOk ==
    /\ pc = "ok"
    /\ trace' = Append(trace, Req("setup_ok", None, TRUE, "", ""))
    /\ pc' = "Ready"
    /\ UNCHANGED <<registry, version, window, visible, replies>>

\* The front-end invokes get_app_version.
InvokeGetAppVersion ==
    /\ EventLoopRunning
    /\ Len(replies) < MaxCalls
    /\ replies' = Append(replies,
            [cmd |-> "get_app_version", window |-> None, ret |-> get_app_version(version)])
    /\ UNCHANGED <<registry, version, pc, window, visible, trace>>

\* The front-end invokes show_about_dialog from window w.
InvokeShowAboutDialog ==
    /\ EventLoopRunning
    /\ Len(replies) < MaxCalls
    /\ \E w \in registry :
          /\ trace' = trace \o show_about_dialog(w, version)
          /\ replies' = Append(replies,
                [cmd |-> "show_about_dialog", window |-> w, ret |-> Unit])
    /\ UNCHANGED <<registry, version, pc, window, visible>>

Next ==
    \/ SetupGetWindow
    \/ SetupShow
    \/ SetupOk
    \/ InvokeGetAppVersion
    \/ InvokeShowAboutDialog

Spec == Init /\ [][Next]_vars

\* ------------------------------------------------- observation operators

\* The lines of a text, split at every newline.
RECURSIVE Lines(_)
Lines(s) ==
    LET i == IndexOf(s, "\n")
    IN  IF i = 0 THEN <<s>>
        ELSE <<SubSeq(s, 1, i - 1)>> \o Lines(SubSeq(s, i + 1, Len(s)))

\* The text up to the first space.
FirstWord(s) ==
    LET i == IndexOf(s, " ") IN IF i = 0 THEN s ELSE SubSeq(s, 1, i - 1)

\* The version a message shows on its "Version: " line, None without one.
EmbeddedVersion(m) ==
    LET ls == Lines(m)
        p == "Version: "
    IN  IF Len(ls) >= 3 /\ Len(ls[3]) >= Len(p) /\ SubSeq(ls[3], 1, Len(p)) = p
        THEN SubSeq(ls[3], Len(p) + 1, Len(ls[3]))
        ELSE None

IsDialog(r) == r.req = "dialog"
IsAboutCall(c) == c.cmd = "show_about_dialog"
IsVersionCall(c) == c.cmd = "get_app_version"

\* The dialog-display requests made so far, in order.
Dialogs == SelectSeq(trace, IsDialog)
\* The about-dialog calls answered so far, in order.
AboutCalls == SelectSeq(replies, IsAboutCall)
\* The get-version calls answered so far, in order.
VersionCalls == SelectSeq(replies, IsVersionCall)

\* Positions of the requests of one kind in the trace.
At(kind) == {i \in 1..Len(trace) : trace[i].req = kind}

LookupFailed == Req("get_window", "main", FALSE, "", "")
LookupDone == Req("get_window", "main", TRUE, "", "")

\* ------------------------------------------------------------------ claims

\* C1: in a launch whose registry holds no window "main", startup aborts:
\* the only request ever made is one failed lookup of "main" (no other name,
\* no second lookup), no window is shown, completion is never signalled and
\* the process is never Ready.
C1_NoMainAborts ==
    "main" \notin registry =>
        /\ pc \in {"get_window", "Aborted"}
        /\ trace \in {<<>>, <<LookupFailed>>}
        /\ (pc = "Aborted") <=> (trace # <<>>)
        /\ visible = {}

C1_Witness ==
    /\ "main" \notin registry
    /\ registry # {}
    /\ pc = "Aborted"
    /\ trace = <<LookupFailed>>

\* C2: in a launch where the lookup of "main" succeeds and the show request
\* fails, startup aborts at the failed show: nothing follows it in the
\* trace, completion is not signalled, the process is not Ready and no
\* command is served.
C2_ShowFailureAborts ==
    (\E i \in At("show") : ~trace[i].ok) =>
        /\ pc = "Aborted"
        /\ trace = <<LookupDone, Req("show", "main", FALSE, "", "")>>
        /\ At("setup_ok") = {}
        /\ visible = {}
        /\ replies = <<>>

C2_Witness ==
    /\ Len(trace) = 2
    /\ trace[1] = LookupDone
    /\ trace[2].req = "show" /\ ~trace[2].ok
    /\ pc = "Aborted"

\* C3: at most one show request is ever made, and in a run that reached
\* Ready exactly one was made, on "main", and it set the visibility flag:
\* no later get-version or about-dialog call adds another.
C3_ShownExactlyOnce ==
    /\ Cardinality(At("show")) <= 1
    /\ pc = "Ready" =>
          /\ Cardinality(At("show")) = 1
          /\ \A i \in At("show") : trace[i].target = "main" /\ trace[i].ok
          /\ visible = {"main"}

C3_Witness ==
    /\ pc = "Ready"
    /\ VersionCalls # <<>>
    /\ \E k \in 1..Len(AboutCalls) : AboutCalls[k].window = "main"

\* C4: the setup requests come in the order lookup of "main", show on the
\* resolved window, completion signal, each only after the one before it
\* succeeded; completion is signalled at most once, and the process is Ready
\* exactly when it has been signalled.
C4_StartupOrder ==
    /\ Len(trace) >= 1 => trace[1].req = "get_window" /\ trace[1].target = "main"
    /\ Len(trace) >= 2 =>
          /\ trace[1].ok
          /\ trace[2].req = "show" /\ trace[2].target = "main"
    /\ Len(trace) >= 3 => trace[2].ok /\ trace[3].req = "setup_ok"
    /\ \A i \in 4..Len(trace) : trace[i].req \notin {"get_window", "show", "setup_ok"}
    /\ (pc = "Ready") <=> (Len(trace) >= 3)
    /\ pc = "show" => Len(trace) = 1
    /\ pc = "ok" => Len(trace) = 2

C4_Witness ==
    /\ pc = "Ready"
    /\ Len(trace) > 3
    /\ trace[1] = LookupDone
    /\ trace[2] = Req("show", "main", TRUE, "", "")
    /\ trace[3].req = "setup_ok"

\* C5: the number of dialog-display requests equals the number of
\* about-dialog calls; get-version calls and the startup sequence add none.
C5_OneDialogPerCall ==
    Len(Dialogs) = Len(AboutCalls)

C5_Witness ==
    /\ Len(AboutCalls) >= 2
    /\ Len(Dialogs) >= 2
    /\ VersionCalls # <<>>

\* C6: every get-version call returns the same non-empty string, whatever
\* calls precede it, and that string is the version every about message
\* embeds.
C6_VersionStable ==
    \A i \in 1..Len(VersionCalls) :
        /\ VersionCalls[i].ret # ""
        /\ \A j \in 1..Len(VersionCalls) : VersionCalls[j].ret = VersionCalls[i].ret
        /\ \A k \in 1..Len(Dialogs) :
              EmbeddedVersion(Dialogs[k].message) = VersionCalls[i].ret

C6_Witness ==
    /\ Len(replies) >= 3
    /\ replies[1].cmd = "get_app_version"
    /\ replies[2].cmd = "show_about_dialog"
    /\ replies[3].cmd = "get_app_version"
    /\ Dialogs # <<>>

\* C7: every dialog message is the fixed seven-line template with the build
\* version on its third line; for version "1.2.3" it is exactly the text of
\* the specification.
C7_MessageTemplate ==
    \A k \in 1..Len(Dialogs) :
        /\ Lines(Dialogs[k].message) =
              << "SageFlow Accounting", "",
                 "Version: " \o version, "",
                 "Modern accounting software for Ethiopian businesses.", "",
                 "© 2026 SageFlow" >>
        /\ version = "1.2.3" =>
              Dialogs[k].message =
                 "SageFlow Accounting\n\nVersion: 1.2.3\n\nModern accounting software for Ethiopian businesses.\n\n© 2026 SageFlow"

C7_Witness ==
    /\ version = "1.2.3"
    /\ Dialogs # <<>>

\* C8 as stated: the title is "About " followed by the application name the
\* message shows as its first line.
C8_TitleIsFirstLine ==
    \A k \in 1..Len(Dialogs) :
        Dialogs[k].title = "About " \o Lines(Dialogs[k].message)[1]

\* C8 amended: the title is "About SageFlow", "About " followed by the first
\* word of the application name the message shows as its first line.
C8_TitleShortName ==
    \A k \in 1..Len(Dialogs) :
        /\ Dialogs[k].title = "About SageFlow"
        /\ Dialogs[k].title = "About " \o FirstWord(Lines(Dialogs[k].message)[1])

C8_Witness ==
    /\ Dialogs # <<>>
    /\ Lines(Dialogs[1].message)[1] = "SageFlow Accounting"

\* C9: the k-th dialog-display request is anchored to the window the k-th
\* about-dialog call was given, a registered window, and the call returns
\* the unit value.
C9_AnchoredToCaller ==
    /\ Len(Dialogs) = Len(AboutCalls)
    /\ \A k \in 1..Len(AboutCalls) :
          /\ Dialogs[k].target = AboutCalls[k].window
          /\ Dialogs[k].target \in registry
          /\ AboutCalls[k].ret = Unit

C9_Witness ==
    \E k \in 1..Len(AboutCalls) :
        /\ AboutCalls[k].window # "main"
        /\ k <= Len(Dialogs)
        /\ Dialogs[k].target = AboutCalls[k].window

\* C10: no command is answered and no dialog is requested unless the process
\* is Ready, and every dialog-display request comes after the successful
\* show request on "main" and the completion signal.
C10_CommandsAfterReady ==
    /\ pc # "Ready" => replies = <<>> /\ Dialogs = <<>>
    /\ \A i \in At("dialog") :
          /\ \E j \in At("show") : j < i /\ trace[j].target = "main" /\ trace[j].ok
          /\ \E j \in At("setup_ok") : j < i

C10_Witness ==
    /\ pc = "Ready"
    /\ At("dialog") # {}
    /\ VersionCalls # <<>>
    /\ \E j \in At("show") : \A i \in At("dialog") : j < i

====
